---- MODULE Spec2Model ----
(***************************************************************************)
(* Model of the multi-agent analysis pipeline of tricodex-ibm:             *)
(*   - EnhancedAnalysisPipeline.execute with its AnalysisCache             *)
(*     (components/pipeline/analysis_pipeline.py),                         *)
(*   - EnhancedAnalysisPipeline.analyze_dataset driven by                  *)
(*     AnalysisService.process_analysis (services/analysis_service.py),    *)
(*   - BaseAgent.analyze (components/agents/base_agent.py).                *)
(* Each entry point has its own specification over the shared variables.   *)
(***************************************************************************)
EXTENDS Integers, Sequences, FiniteSets, TLC

\* ------------------------------------------------------------------ bounds
MaxThoughts == 20     \* longest thought log kept (the log is never cleared)
MaxTime == 2          \* last tick of the wall clock
TicksPerDay == 2      \* clock ticks per calendar day (scale of the model)
MaxInitCalls == 1     \* remote calls an agent may have made before the pipeline uses it
MaxPartial == 1       \* partial results a _run_analysis may accumulate
Timeout == 1          \* the timeout argument an agent is constructed with, in ticks
MaxSent == 4          \* remote requests one instance is followed for
MaxMade == 2          \* agent constructions of one type the factory is followed for
MaxRetries == 3       \* largest retries argument given to async_retry
MaxNum == 1           \* largest number and latest instant used as a mapping key
MaxKeys == 2          \* most keys of a mapping given to the serializer
MaxCap == 2           \* largest max_size an AnalysisCache is created with
MaxSets == 5          \* set calls one AnalysisCache is followed for
MaxGot == 2           \* messages one websocket client is followed for

\* ------------------------------------------------------- program constants
MAX_TOTAL_API_CALLS == 5
max_size == 100
MinInterval == 1      \* the 1.0 second of the rate limiting; a tick is a second
delay == 1            \* async_retry's default first delay, in seconds
backoff == 2          \* async_retry's default backoff factor

None == "None"
\* dict.get's None and "no value returned yet", as records so that they compare
\* with result dicts
NoValue == [status |-> "none"]

\* The agents dict handed to the pipeline, in iteration order; _validate_agents
\* requires exactly these three names.
AgentNames == <<"watson", "gemini", "function">>
Agents == {AgentNames[i] : i \in 1..Len(AgentNames)}

\* Datasets by what the code does with them: "empty" has 0 rows, "good" is a
\* regular frame, "bad_fill" makes _preprocess_data raise, "bad_summary" makes
\* _prepare_analysis_input raise.
Datasets == {"empty", "good", "bad_fill", "bad_summary"}
RowCount(d) == IF d = "empty" THEN 0 ELSE 1

\* What one awaited agent.analyze(...) call can hand to the pipeline:
\*   "ok"      a success result whose insights are mappings,
\*   "ok_text" a success result whose insights are plain strings,
\*   "error"   BaseAgent.analyze's error dict ('error' is a str),
\*   "raise"   an exception escaping the agent's analyze.
Outcomes == {"ok", "ok_text", "error", "raise"}

VARIABLES
  now,             \* wall clock, in ticks
  pc,              \* position of the running entry point
  runs,            \* entry-point calls made so far
  data,            \* the dataset argument of the current call
  cache_key,       \* execute: the key computed for the current call
  cache,           \* AnalysisCache.cache: insertion-ordered <<key, value>> entries
  progress,        \* pipeline._progress
  thoughts,        \* pipeline._thoughts
  results,         \* pipeline._results: insertion-ordered per-agent results
  active_agent,    \* pipeline._active_agent
  api_calls,       \* agent._api_calls of the agents that have the attribute
  api_call_count,  \* execute's local api_call_count
  idx,             \* execute: position of the agent loop
  called,          \* per agent: outcome of its analyze in the current call, or None
  hit,             \* execute: the current call found its key in the cache
  started,         \* clock value when the current call began
  ret,             \* value the current call returned (as it was when returned)
  returned,        \* log of the runs that cached a result: key, run, time, value returned
  stored,          \* keys some run has cached after aggregating
  agent,           \* one BaseAgent instance: its attributes
  call,            \* the analyze call in progress on that instance
  task,            \* AnalysisService: the task document of db.analyses
  session,         \* analyze_dataset: the locals of the call in progress
  inst,            \* one agent instance with a remote model, and the analyze calls on it
  factory,         \* AgentFactory: its class attributes and the call in progress
  retry,           \* one call of a function wrapped by async_retry
  ser,             \* MongoDBSerializer: a mapping, its stored form and what is read back
  lru,             \* one AnalysisCache of a small max_size and the set calls made on it
  mgr,             \* main.py: ConnectionManager and the coroutines calling it
  wsm              \* routes/websocket.py: ConnectionManager and its clients

execVars == <<pc, runs, data, cache_key, cache, progress, thoughts, results,
              active_agent, api_calls, api_call_count, idx, called, hit, started,
              ret, returned, stored>>
moreVars == <<ser, lru, mgr, wsm>>
auxVars == <<inst, factory, retry, moreVars>>
vars == <<now, execVars, agent, call, task, session, auxVars>>

\* ------------------------------------------------------------ AnalysisCache
CacheKeys(c) == {c[i].key : i \in 1..Len(c)}

CacheGet(c, k) ==
  IF k \in CacheKeys(c)
  THEN (c[CHOOSE i \in 1..Len(c) : c[i].key = k]).value
  ELSE NoValue

\* set that makes room by deleting the newest entry
CacheSetEvictsNewest(c, cap, k, v) ==
  LET kept == IF Len(c) >= cap THEN SubSeq(c, 1, Len(c) - 1) ELSE c
  IN IF k \in CacheKeys(kept)
     THEN [i \in 1..Len(kept) |->
             IF kept[i].key = k THEN [key |-> k, value |-> v] ELSE kept[i]]
     ELSE Append(kept, [key |-> k, value |-> v])

CacheSet(c, cap, k, v) ==
  LET kept == IF Len(c) >= cap THEN Tail(c) ELSE c
  IN IF k \in CacheKeys(kept)
     THEN [i \in 1..Len(kept) |->
             IF kept[i].key = k THEN [key |-> k, value |-> v] ELSE kept[i]]
     ELSE Append(kept, [key |-> k, value |-> v])

\* _generate_cache_key: shape, columns, dtypes and head hash are functions of
\* the dataset; the "timestamp" field is the calendar day of the call.
Day(t) == t \div TicksPerDay
GenerateCacheKey(d, t) == <<d, Day(t)>>

\* ------------------------------------------------------------- _add_thought
Thought(kind) ==
  [thought |-> kind, agent |-> IF active_agent = None THEN "pipeline" ELSE active_agent]
ThoughtAs(kind, who) ==
  [thought |-> kind, agent |-> IF who = None THEN "pipeline" ELSE who]

\* -------------------------------------------------------- _aggregate_results
\* {"agent": agent_name, **insight} raises TypeError when an insight is not a
\* mapping.
AggregateRaises(rs) == \E i \in 1..Len(rs) : rs[i].shape = "ok_text"

AggregateResults(rs) ==
  [insights        |-> [i \in 1..Len(rs) |-> [agent |-> rs[i].agent, run |-> rs[i].run]],
   recommendations |-> [i \in 1..Len(rs) |-> [agent |-> rs[i].agent, run |-> rs[i].run]],
   summary         |-> {rs[i].agent : i \in 1..Len(rs)}]

\* The "patterns" field of a stored agent result (_validate_output_structure
\* requires the field): every agent reports the same pattern here.
PatternsOf(r) == <<[name |-> "bottleneck", type |-> "temporal"]>>

\* aggregated.get("patterns", []): _aggregate_results builds the keys summary,
\* insights and recommendations only
Patterns(aggregated) ==
  IF "patterns" \in DOMAIN aggregated THEN aggregated.patterns ELSE <<>>

\* self._results[agent_name] = agent_result on an insertion-ordered dict
StoreResult(rs, a, r) ==
  IF \E i \in 1..Len(rs) : rs[i].agent = a
  THEN [i \in 1..Len(rs) |-> IF rs[i].agent = a THEN r ELSE rs[i]]
  ELSE Append(rs, r)

\* getattr(agent, '_api_calls', 1): FunctionCallingAgent has no such attribute
ApiCallsOf(ac, a) == IF a \in DOMAIN ac THEN ac[a] ELSE 1

\* min(95, int(agent_progress_start + 70/len(agents))), with
\* agent_progress_start = 30 + 70 * (index / len(agents))
AgentProgress(i) ==
  LET n == Len(AgentNames)
      p == (30 * n + 70 * (i - 1) + 70) \div n
  IN IF p < 95 THEN p ELSE 95

\* most thoughts one call appends: start, preprocessing, three of
\* _prepare_analysis_input, and a start and an error thought per agent
RunThoughts == 5 + 2 * Len(AgentNames)

NoCalls == [a \in Agents |-> None]

\* A result dict of execute as a value: "thoughts" is the pipeline's own list
\* object, so the dict read at any moment shows the list as it is then.
Deref(v, ts) == [status |-> v.status, results |-> v.results, thoughts |-> ts,
                 progress |-> v.progress, error |-> v.error]

\* --------------------------------------------------------------- BaseAgent
\* _reset_state: the per-call state of an instance
\* None in an attribute that otherwise holds a clock value
NoTime == -1

ResetState ==
  [start_time |-> NoTime, current_state |-> "init", analysis_results |-> {},
   error_count |-> 0, last_error |-> None]
NoCall == [pc |-> "idle"]
NoTask == [status |-> "none"]
NoSession == [pc |-> "idle"]
NoInst == [kind |-> "none"]
NoFactory == [pc |-> "idle"]
NoRetry == [pc |-> "idle"]
NoSer == [pc |-> "idle"]
NoLru == [pc |-> "none"]

\* websockets and task ids of the two connection managers
Sockets == 1..2
TaskIds == {"t1", "t2"}
Procs == 1..2

\* a coroutine that is not inside a call of main.py's ConnectionManager
IdleProc ==
  [op |-> "none", pc |-> "idle", ws |-> 0, task |-> "none", i |-> 0,
   dead |-> <<>>, inner |-> FALSE]

\* main.py ConnectionManager.__init__: no connections, the lock free (0)
NewManager ==
  [lock |-> 0, active |-> [t \in TaskIds |-> <<>>],
   procs |-> [p \in Procs |-> IdleProc]]

\* routes/websocket.py ConnectionManager.__init__: no connections (0 stands
\* for a task id that is not in the dict); no endpoint is running
NewRouteManager ==
  [active |-> [t \in TaskIds |-> 0],
   clients |-> [w \in Sockets |-> [pc |-> "new", task |-> "none", got |-> 0]]]

\* ------------------------------------------------------------------ execute
Init ==
  /\ now = 0
  /\ pc = "idle"
  /\ runs = 0
  /\ data = None
  /\ cache_key = None
  /\ cache = <<>>
  /\ progress = 0
  /\ thoughts = <<>>
  /\ results = <<>>
  /\ active_agent = None
  /\ \E c \in 0..MaxInitCalls : api_calls = [a \in {"watson", "gemini"} |-> c]
  /\ api_call_count = 0
  /\ idx = 1
  /\ called = NoCalls
  /\ hit = FALSE
  /\ started = 0
  /\ ret = NoValue
  /\ returned = <<>>
  /\ stored = {}
  /\ agent = ResetState
  /\ call = NoCall
  /\ task = NoTask
  /\ session = NoSession
  /\ inst = NoInst
  /\ factory = NoFactory
  /\ retry = NoRetry
  /\ ser = NoSer
  /\ lru = NoLru
  /\ mgr = NewManager
  /\ wsm = NewRouteManager

Idle == pc \in {"idle", "done"}

\* time passes between two calls (the first call is the origin of the clock)
Tick ==
  /\ pc = "done"
  /\ now < MaxTime
  /\ now' = now + 1
  /\ UNCHANGED <<pc, runs, data, cache_key, cache, progress, thoughts, results,
                 active_agent, api_calls, api_call_count, idx, called, hit,
                 started, ret, returned, stored, agent, call, task, session, auxVars>>

\* lines 62-73: key, cache lookup, hit return or the start thought
ExecuteBegin ==
  /\ Idle
  /\ Len(thoughts) + RunThoughts <= MaxThoughts
  /\ \E d \in Datasets :
       LET k == GenerateCacheKey(d, now)
           cached_result == CacheGet(cache, k)
       IN /\ data' = d
          /\ cache_key' = k
          /\ runs' = runs + 1
          /\ called' = NoCalls
          /\ started' = now
          /\ hit' = (cached_result # NoValue)
          /\ IF cached_result # NoValue
             THEN /\ thoughts' = Append(thoughts, Thought("cached"))
                  /\ ret' = Deref(cached_result, thoughts')
                  /\ pc' = "done"
             ELSE /\ thoughts' = Append(thoughts, Thought("start"))
                  /\ ret' = NoValue
                  /\ pc' = "preprocess"
  /\ UNCHANGED <<now, cache, progress, results, active_agent, api_calls,
                 api_call_count, idx, returned, stored, agent, call, task, session, auxVars>>

\* the except clause of execute, lines 129-137
ErrorResult(ts) ==
  [status |-> "error", results |-> results, thoughts |-> ts,
   progress |-> progress, error |-> "exception"]

\* lines 76-85: _preprocess_data, progress 30, _prepare_analysis_input
ExecutePreprocess ==
  /\ pc = "preprocess"
  /\ IF data = "bad_fill"
     THEN /\ ret' = ErrorResult(thoughts)
          /\ pc' = "done"
          /\ UNCHANGED <<progress, thoughts>>
     ELSE IF data = "bad_summary"
     THEN /\ progress' = 30
          /\ thoughts' = thoughts \o <<Thought("preprocessed"), Thought("prepare_error")>>
          /\ ret' = [ErrorResult(thoughts') EXCEPT !.progress = 30]
          /\ pc' = "done"
     ELSE /\ progress' = 30
          /\ thoughts' = thoughts \o <<Thought("preprocessed"), Thought("metrics"),
                                       Thought("metadata"), Thought("patterns")>>
          /\ ret' = NoValue
          /\ pc' = "dispatch"
  /\ api_call_count' = 0
  /\ idx' = 1
  /\ UNCHANGED <<now, runs, data, cache_key, cache, results, active_agent,
                 api_calls, called, hit, started, returned, stored,
                 agent, call, task, session, auxVars>>

\* lines 86-111: one iteration of the agent loop
ExecuteAgent ==
  /\ pc = "dispatch"
  /\ idx <= Len(AgentNames)
  /\ api_call_count < MAX_TOTAL_API_CALLS
  /\ LET a == AgentNames[idx] IN
     \E o \in Outcomes :
       /\ active_agent' = a
       /\ called' = [called EXCEPT ![a] = o]
       /\ IF o = "raise"
          THEN /\ thoughts' = thoughts \o <<ThoughtAs("agent_start", a),
                                            ThoughtAs("agent_error", a)>>
               /\ UNCHANGED <<api_calls, api_call_count, results, progress>>
          ELSE /\ thoughts' = Append(thoughts, ThoughtAs("agent_start", a))
               /\ api_calls' = IF a \in DOMAIN api_calls
                               THEN [api_calls EXCEPT ![a] = @ + 1]
                               ELSE api_calls
               /\ api_call_count' = api_call_count + ApiCallsOf(api_calls', a)
               /\ results' = IF o \in {"ok", "ok_text"}
                             THEN StoreResult(results, a,
                                              [agent |-> a, run |-> runs, shape |-> o])
                             ELSE results
               /\ progress' = AgentProgress(idx)
  /\ idx' = idx + 1
  /\ UNCHANGED <<now, pc, runs, data, cache_key, cache, hit, started, ret,
                 returned, stored, agent, call, task, session, auxVars>>

\* the agent loop left before every agent has been asked
ExecuteLoopEndEarly ==
  /\ pc = "dispatch"
  /\ pc' = "merge"
  /\ UNCHANGED <<now, runs, data, cache_key, cache, progress, thoughts, results,
                 active_agent, api_calls, api_call_count, idx, called, hit,
                 started, ret, returned, stored, agent, call, task, session, auxVars>>

\* lines 87-89 and the end of the loop
ExecuteLoopEnd ==
  /\ pc = "dispatch"
  /\ \/ idx > Len(AgentNames)
     \/ api_call_count >= MAX_TOTAL_API_CALLS
  /\ pc' = "merge"
  /\ UNCHANGED <<now, runs, data, cache_key, cache, progress, thoughts, results,
                 active_agent, api_calls, api_call_count, idx, called, hit,
                 started, ret, returned, stored, agent, call, task, session, auxVars>>

\* execute with the cache written before the results are aggregated
ExecuteFinishCachesFirst ==
  /\ pc = "merge"
  /\ progress' = 100
  /\ cache' = CacheSet(cache, max_size, cache_key,
                       [status |-> "completed", results |-> <<>>,
                        progress |-> 100, error |-> None])
  /\ IF AggregateRaises(results)
     THEN /\ ret' = [ErrorResult(thoughts) EXCEPT !.progress = 100]
          /\ UNCHANGED <<returned, stored>>
     ELSE /\ ret' = Deref([status |-> "completed",
                           results |-> AggregateResults(results),
                           progress |-> 100, error |-> None], thoughts)
          /\ returned' = Append(returned, [key |-> cache_key, run |-> runs,
                                            at |-> started, value |-> ret'])
          /\ stored' = stored \cup {cache_key}
  /\ pc' = "done"
  /\ UNCHANGED <<now, runs, data, cache_key, thoughts, results, active_agent,
                 api_calls, api_call_count, idx, called, hit, started,
                 agent, call, task, session, auxVars>>

\* lines 113-127 (and 129-137 when _aggregate_results raises)
ExecuteFinish ==
  /\ pc = "merge"
  /\ progress' = 100
  /\ IF AggregateRaises(results)
     THEN /\ ret' = [ErrorResult(thoughts) EXCEPT !.progress = 100]
          /\ UNCHANGED <<cache, returned, stored>>
     ELSE LET result == [status |-> "completed", results |-> AggregateResults(results),
                         progress |-> 100, error |-> None]
          IN /\ cache' = CacheSet(cache, max_size, cache_key, result)
             /\ ret' = Deref(result, thoughts)
             /\ returned' = Append(returned, [key |-> cache_key, run |-> runs,
                                               at |-> started, value |-> ret'])
             /\ stored' = stored \cup {cache_key}
  /\ pc' = "done"
  /\ UNCHANGED <<now, runs, data, cache_key, thoughts, results, active_agent,
                 api_calls, api_call_count, idx, called, hit, started,
                 agent, call, task, session, auxVars>>

Next ==
  \/ Tick
  \/ ExecuteBegin
  \/ ExecutePreprocess
  \/ ExecuteAgent
  \/ ExecuteLoopEnd
  \/ ExecuteFinish

Spec == Init /\ [][Next]_vars

\* ---------------------------------------------------------- BaseAgent.analyze
\* Inputs of analyze by what validation and sanitization do with them.
AgentInputs == {"valid", "not_dict", "missing_fields", "unsanitizable"}

\* What the awaited _run_analysis of a subclass ends with: a dict with the
\* required fields, a dict without them (WatsonAgent returns {"status",
\* "error"} from its own handler), or an exception (TimeoutError from
\* _check_timeout, the plain Exception of ProcessLensAgent, ValueError).
RunOutcomes == {"result", "malformed", "ValueError", "TimeoutError", "Exception"}
Raises(o) == o \in {"ValueError", "TimeoutError", "Exception"}

\* a handler written `except ValueError`
HandlesValueErrorOnly(exc) == exc = "ValueError"

\* `except Exception as e`: all the classes above derive from Exception
Handles(exc) == exc \in {"ValueError", "TimeoutError", "Exception", "TypeError"}

\* the except clause and the finally clause of analyze: what the call ends
\* with when its try body raised `exc` (None: it returned `value`)
AnalyzeOutcome(ag, exc, value) ==
  IF exc = None
  THEN [escaped |-> FALSE, ret |-> value]
  ELSE IF Handles(exc)
  THEN [escaped |-> FALSE,
        ret |-> [status |-> "error", error |-> exc,
                 error_count |-> ag.error_count + 1,
                 partial_results |-> ag.analysis_results]]
  ELSE [escaped |-> TRUE, ret |-> NoValue]

\* _validate_input_data then _sanitize_data: the exception they raise, or None
InputFault(input) ==
  IF input \in {"not_dict", "missing_fields", "unsanitizable"} THEN "ValueError" ELSE None

AgentQuiet == call.pc \in {"idle", "returned"}

\* how the previous call on the instance ended: what it raised and how many
\* partial results it had recorded ("first": there was no previous call)
Prior(c) ==
  IF c.pc = "returned" THEN [raised |-> c.raised, acc |-> c.acc]
  ELSE [raised |-> "first", acc |-> 0]

\* lines 29-32, and 41-53 when validation or sanitization raises
AnalyzeBegin ==
  /\ AgentQuiet
  /\ \E input \in AgentInputs :
       LET exc == InputFault(input)
           started_agent == [agent EXCEPT !.start_time = now]
           out == AnalyzeOutcome(started_agent, exc, NoValue)
       IN IF exc = None
          THEN /\ agent' = started_agent
               /\ call' = [pc |-> "running", input |-> input, raised |-> None,
                           acc |-> 0, escaped |-> FALSE, ret |-> NoValue,
                           prior |-> Prior(call)]
          ELSE /\ agent' = ResetState
               /\ call' = [pc |-> "returned", input |-> input, raised |-> exc,
                           acc |-> 0, escaped |-> out.escaped, ret |-> out.ret,
                           prior |-> Prior(call)]
  /\ UNCHANGED <<now, execVars, task, session, auxVars>>

\* a subclass' _run_analysis recording a partial result in analysis_results
AnalyzeAccumulate ==
  /\ call.pc = "running"
  /\ call.acc < MaxPartial
  /\ agent' = [agent EXCEPT !.analysis_results = @ \cup {call.acc + 1}]
  /\ call' = [call EXCEPT !.acc = @ + 1]
  /\ UNCHANGED <<now, execVars, task, session, auxVars>>

\* time passing while the call awaits its remote request
AnalyzeWait ==
  /\ call.pc = "running"
  /\ now < MaxTime
  /\ now' = now + 1
  /\ UNCHANGED <<execVars, agent, call, task, session, auxVars>>

\* analyze without its finally clause
AnalyzeEndNoFinally ==
  /\ call.pc = "running"
  /\ \E o \in RunOutcomes :
       LET exc == IF Raises(o) THEN o
                  ELSE IF o = "malformed" THEN "ValueError"
                  ELSE None
           value == [status |-> "success", processing_time |-> now - agent.start_time]
           out == AnalyzeOutcome(agent, exc, value)
       IN /\ call' = [call EXCEPT !.pc = "returned", !.raised = exc,
                                  !.escaped = out.escaped, !.ret = out.ret]
          /\ agent' = agent
  /\ UNCHANGED <<now, execVars, task, session, auxVars>>

\* lines 35-39 from the return of _run_analysis on, then 41-53
AnalyzeEnd ==
  /\ call.pc = "running"
  /\ \E o \in RunOutcomes, own \in {0, 1} :
       LET exc == IF Raises(o) THEN o
                  ELSE IF o = "malformed" THEN "ValueError"
                  ELSE None
           \* _generate_response counts its own failure before re-raising
           ag == IF Raises(o)
                 THEN [agent EXCEPT !.error_count = @ + own, !.last_error = o]
                 ELSE agent
           value == [status |-> "success", processing_time |-> now - agent.start_time]
           out == AnalyzeOutcome(ag, exc, value)
       IN /\ (~Raises(o) => own = 0)
          /\ call' = [call EXCEPT !.pc = "returned", !.raised = exc,
                                  !.escaped = out.escaped, !.ret = out.ret]
          /\ agent' = ResetState
  /\ UNCHANGED <<now, execVars, task, session, auxVars>>

NextAgent ==
  \/ AnalyzeBegin
  \/ AnalyzeAccumulate
  \/ AnalyzeWait
  \/ AnalyzeEnd

SpecAgent == Init /\ [][NextAgent]_vars

\* ------------------------- AnalysisService.process_analysis / analyze_dataset
\* What an awaited agent.analyze hands to analyze_dataset: a success dict, the
\* error dict of BaseAgent.analyze, or an exception.
CallOutcomes == {"ok", "error", "raise"}

\* asyncio.gather(..., return_exceptions=True): a raised exception becomes
\* the exception object in the result list
Gathered(o) == IF o = "raise" THEN "exception" ELSE o

\* lines 351-358: the loop assigns the error dict to its own variable
\* `result`; watson_results and gemini_results stay what gather returned
HandleAgentErrors(watson_results, gemini_results) ==
  <<watson_results, gemini_results>>

\* the except clause of analyze_dataset, lines 386-394
SessionError == [status |-> "error", error |-> "exception"]

\* json.dumps(serialized_results) of line 78 raises TypeError on an exception
\* object left in the results
Serializable(r) ==
  r.status = "error"
  \/ (r.watson_analysis # "exception" /\ r.gemini_analysis # "exception")

SessionQuiet == session.pc \in {"idle", "done"}

\* process_analysis lines 61-72 (99-114 for an empty frame), then
\* analyze_dataset lines 308-331 up to the awaited data-quality call
ProcessAnalysis ==
  /\ SessionQuiet
  /\ \E d \in {"empty", "good"} :
       IF RowCount(d) = 0
       THEN /\ task' = [status |-> "failed", progress |-> 0,
                        error |-> "Empty dataset provided"]
            /\ session' = [pc |-> "done", data |-> d, invoked |-> {},
                           raised |-> "ProcessLensError"]
       ELSE /\ task' = [status |-> "processing", progress |-> 0, error |-> None]
            /\ session' = [pc |-> "quality", data |-> d, invoked |-> {"function"},
                           raised |-> None]
  /\ UNCHANGED <<now, execVars, agent, call, auxVars>>

\* lines 327-342: the data-quality call returns, the two tasks are created
AnalyzeQuality ==
  /\ session.pc = "quality"
  /\ \E o \in CallOutcomes :
       IF o = "raise"
       THEN session' = [session EXCEPT !.pc = "store"] @@ [ret |-> SessionError]
       ELSE session' = [session EXCEPT !.pc = "gather"] @@ [data_quality |-> o]
  /\ UNCHANGED <<now, execVars, agent, call, task, auxVars>>

\* lines 345-367: gather, the error-handling loop, the synthesis input
AnalyzeGather ==
  /\ session.pc = "gather"
  /\ \E w \in CallOutcomes, g \in CallOutcomes :
       LET handled == HandleAgentErrors(Gathered(w), Gathered(g))
       IN session' = [session EXCEPT !.pc = "synthesize",
                                     !.invoked = @ \cup {"watson", "gemini"}]
                     @@ [watson_results |-> handled[1],
                         gemini_results |-> handled[2],
                         synthesis_input |-> [watson_results |-> handled[1],
                                              gemini_results |-> handled[2],
                                              data_quality |-> session.data_quality]]
  /\ UNCHANGED <<now, execVars, agent, call, task, auxVars>>

\* lines 361-384: the synthesis call returns, the result is built
AnalyzeSynthesize ==
  /\ session.pc = "synthesize"
  /\ \E o \in CallOutcomes :
       session' = [session EXCEPT !.pc = "store"] @@
         [ret |-> IF o = "raise"
                  THEN SessionError
                  ELSE [status |-> "success",
                        data_quality |-> session.data_quality,
                        watson_analysis |-> session.watson_results,
                        gemini_analysis |-> session.gemini_results,
                        synthesis |-> o]]
  /\ UNCHANGED <<now, execVars, agent, call, task, auxVars>>

\* process_analysis lines 73-97, and 99-114 when serialization raises
ProcessStore ==
  /\ session.pc = "store"
  /\ IF Serializable(session.ret)
     THEN /\ task' = [status |-> "completed", progress |-> 100, error |-> None]
          /\ session' = [session EXCEPT !.pc = "done"]
     ELSE /\ task' = [status |-> "failed", progress |-> 0,
                      error |-> "Failed to serialize results"]
          /\ session' = [session EXCEPT !.pc = "done", !.raised = "ProcessLensError"]
  /\ UNCHANGED <<now, execVars, agent, call, auxVars>>

NextService ==
  \/ ProcessAnalysis
  \/ AnalyzeQuality
  \/ AnalyzeGather
  \/ AnalyzeSynthesize
  \/ ProcessStore

SpecService == Init /\ [][NextService]_vars

\* ------------------------------------- _generate_response of the LLM agents
\* WatsonAgent, GeminiAgent and ProcessLensAgent instances as the factory and
\* the pipeline share them: several analyze calls may be in progress on one
\* instance, each awaiting its remote requests.
Kinds == {"watson", "gemini", "processlens"}
Callers == 1..2

\* GeminiAgent and ProcessLensAgent call _check_timeout and rate-limit in
\* _generate_response; WatsonAgent._generate_response does neither
Checks(kind) == kind \in {"gemini", "processlens"}

IdleSlot ==
  [pc |-> "idle", began |-> NoTime, n |-> 0, wake |-> NoTime, req_at |-> NoTime,
   overran |-> FALSE, ret |-> "none"]

InFlight(c) == inst.calls[c].pc \in {"sleep", "request"}

\* the requests a call in progress may still send: _run_analysis makes the
\* main request and at most one follow-up request
Pending(d) ==
  IF inst.calls[d].pc = "sleep" THEN 2 - inst.calls[d].n
  ELSE IF inst.calls[d].pc = "request" THEN 1 - inst.calls[d].n
  ELSE 0

PendingAll ==
  LET sum[S \in SUBSET Callers] ==
        IF S = {} THEN 0
        ELSE LET d == CHOOSE e \in S : TRUE IN Pending(d) + sum[S \ {d}]
  IN sum[Callers]

\* __init__ of the three classes: BaseAgent.__init__, then _last_call_time = 0
RemoteCreate ==
  /\ inst = NoInst
  /\ \E k \in Kinds :
       inst' = [kind |-> k, start_time |-> NoTime, last_call_time |-> NoTime,
                calls |-> [c \in Callers |-> IdleSlot], sent |-> <<>>]
  /\ UNCHANGED <<now, execVars, agent, call, task, session, factory, retry, moreVars>>

\* the call returns from analyze with `r`; the finally clause resets the
\* instance
Return(i, c, r) ==
  [i EXCEPT !.start_time = NoTime,
            !.calls[c].pc = "returned",
            !.calls[c].ret = r]

\* the remote request goes out
Issue(i, c) ==
  [i EXCEPT !.calls[c].pc = "request",
            !.calls[c].req_at = now,
            !.sent = Append(@, now)]

\* BaseAgent._check_timeout
CheckTimeoutRaises(i) ==
  i.start_time # NoTime /\ now - i.start_time > Timeout

\* _generate_response up to its first await: _check_timeout, then the rate
\* limiting, then the remote request. A TimeoutError of the first request
\* fails the call; the one of a follow-up request (_analyze_language_patterns,
\* _analyze_metrics) is caught there and the call succeeds without it. The
\* coroutine runs up to here without yielding to the event loop.
RemoteGenerate(i, c) ==
  IF Checks(i.kind) /\ CheckTimeoutRaises(i)
  THEN Return(i, c, IF i.calls[c].n = 0 THEN "TimeoutError" ELSE "success")
  ELSE IF /\ Checks(i.kind)
          /\ i.last_call_time # NoTime
          /\ now - i.last_call_time < MinInterval
  THEN [i EXCEPT !.calls[c].pc = "sleep",
                 !.calls[c].wake = i.last_call_time + MinInterval]
  ELSE Issue(i, c)

\* BaseAgent.analyze up to the first await of _run_analysis, which is inside
\* the first _generate_response
RemoteAnalyze(c) ==
  /\ inst # NoInst
  /\ ~InFlight(c)
  /\ Len(inst.sent) + 2 + PendingAll <= MaxSent
  /\ inst' = RemoteGenerate([inst EXCEPT !.start_time = now,
                                         !.calls[c] = [IdleSlot EXCEPT !.began = now]],
                            c)
  /\ UNCHANGED <<now, execVars, agent, call, task, session, factory, retry, moreVars>>

\* asyncio.sleep(1.0 - time_since_last) is over: the request goes out
RemoteWake(c) ==
  /\ inst # NoInst
  /\ inst.calls[c].pc = "sleep"
  /\ now >= inst.calls[c].wake
  /\ inst' = Issue(inst, c)
  /\ UNCHANGED <<now, execVars, agent, call, task, session, factory, retry, moreVars>>

\* the awaited remote request ends, whenever the remote side answers; a
\* follow-up request starts in the same step
RemoteRespond(c) ==
  /\ inst # NoInst
  /\ inst.calls[c].pc = "request"
  /\ \E ok \in BOOLEAN, more \in BOOLEAN :
       LET late == now - inst.calls[c].req_at > Timeout
           i1 == [inst EXCEPT !.calls[c].overran = @ \/ late,
                              !.last_call_time =
                                 IF ok /\ Checks(inst.kind) THEN now ELSE @]
       IN /\ (more => ok /\ Checks(inst.kind) /\ inst.calls[c].n = 0)
          /\ inst' = IF more
                     THEN RemoteGenerate([i1 EXCEPT !.calls[c].n = 1], c)
                     ELSE Return(i1, c, IF ok \/ inst.calls[c].n > 0
                                        THEN "success" ELSE "Exception")
  /\ UNCHANGED <<now, execVars, agent, call, task, session, factory, retry, moreVars>>

\* a second passes while some call is in progress
RemoteTick ==
  /\ inst # NoInst
  /\ \E c \in Callers : InFlight(c)
  /\ now < MaxTime
  /\ now' = now + 1
  /\ UNCHANGED <<execVars, agent, call, task, session, auxVars>>

NextRemote ==
  \/ RemoteCreate
  \/ \E c \in Callers : RemoteAnalyze(c)
  \/ \E c \in Callers : RemoteWake(c)
  \/ \E c \in Callers : RemoteRespond(c)
  \/ RemoteTick

SpecRemote == Init /\ [][NextRemote]_vars

\* ------------------------------------------------------------- AgentFactory
Types == {"watson", "gemini"}
EnvVars == {"IBM_API_KEY", "PROJECT_ID", "GOOGLE_API_KEY"}

\* _validate_config: the fields that have no default must be set
ValidateConfig(t, env) ==
  IF t = "watson" THEN {"IBM_API_KEY", "PROJECT_ID"} \subseteq env
  ELSE "GOOGLE_API_KEY" \in env

\* a constructor that accepts what _create_agent passes
ConstructAccepting(t, env, lib_ok) ==
  IF ValidateConfig(t, env) /\ lib_ok THEN "ok" ELSE "ValueError"

\* What the constructor call of _create_agent ends with. WatsonAgent is called
\* with model_id, api_key, project_id and url, which WatsonAgent.__init__(llm,
\* timeout) does not accept: TypeError. GeminiAgent(config, timeout) raises
\* ValueError without an API key; with one, the genai library call of its
\* __init__ succeeds or raises.
Construct(t, env, lib_ok) ==
  IF t = "watson"
  THEN IF ValidateConfig("watson", env) THEN "TypeError" ELSE "ValueError"
  ELSE IF "GOOGLE_API_KEY" \notin env THEN "ValueError"
  ELSE IF lib_ok THEN "ok" ELSE "Exception"

\* What agent.analyze(test_input) under asyncio.wait_for(..., 60) ends with:
\* a success result, the error dict of BaseAgent.analyze, or the 60 seconds
\* pass first.
TestOutcomes == {"success", "error_dict", "timeout"}

\* _test_agent: False without an instance, on TimeoutError and on an exception;
\* True whenever analyze returned
TestAgent(o) == o # "timeout"

NoResult == [ok |-> FALSE, error |-> "none", tested |-> {}, passed |-> {}]

\* the process environment the application starts in
FactoryEnv ==
  /\ factory = NoFactory
  /\ \E env \in SUBSET EnvVars :
       factory' = [pc |-> "ready", env |-> env,
                   instances |-> [t \in Types |-> 0],
                   made |-> [t \in Types |-> 0],
                   created |-> "none", ret |-> NoResult]
  /\ UNCHANGED <<now, execVars, agent, call, task, session, inst, retry, moreVars>>

\* _create_agent(agent_type): always a new object, _instances is not read
CreateAgent ==
  /\ factory # NoFactory
  /\ \E t \in Types, lib_ok \in BOOLEAN :
       LET o == Construct(t, factory.env, lib_ok)
       IN /\ factory.made[t] < MaxMade
          /\ factory' = IF o = "ok"
                        THEN [factory EXCEPT !.made[t] = @ + 1, !.created = t]
                        ELSE [factory EXCEPT !.created = o]
  /\ UNCHANGED <<now, execVars, agent, call, task, session, inst, retry, moreVars>>

\* initialize_agents, lines 27-87
InitializeAgents ==
  /\ factory # NoFactory
  /\ \E lib_ok \in BOOLEAN, tw \in TestOutcomes, tg \in TestOutcomes :
       LET env == factory.env
           invalid == {t \in Types : ~ValidateConfig(t, env)}
           w == Construct("watson", env, lib_ok)
           g == Construct("gemini", env, lib_ok)
           f1 == [factory EXCEPT !.instances["watson"] = factory.made["watson"] + 1,
                                 !.made["watson"] = @ + 1]
           f2 == [f1 EXCEPT !.instances["gemini"] = factory.made["gemini"] + 1,
                            !.made["gemini"] = @ + 1]
           failed == {t \in Types : ~TestAgent(IF t = "watson" THEN tw ELSE tg)}
           passed == {t \in Types : (IF t = "watson" THEN tw ELSE tg) = "success"}
       IN /\ \A t \in Types : factory.made[t] < MaxMade
          /\ factory' =
               IF invalid # {}
               THEN [factory EXCEPT !.ret = [NoResult EXCEPT !.error = "Invalid configuration"]]
               ELSE IF w # "ok"
               THEN [factory EXCEPT !.ret = [NoResult EXCEPT !.error = w]]
               ELSE IF g # "ok"
               THEN [f1 EXCEPT !.ret = [NoResult EXCEPT !.error = g]]
               ELSE IF failed # {}
               THEN [f2 EXCEPT !.ret = [ok |-> FALSE, error |-> "Connection test failed",
                                        tested |-> Types, passed |-> passed]]
               ELSE [f2 EXCEPT !.ret = [ok |-> TRUE, error |-> None,
                                        tested |-> Types, passed |-> passed]]
  /\ UNCHANGED <<now, execVars, agent, call, task, session, inst, retry, moreVars>>

\* reset_agents
ResetAgents ==
  /\ factory # NoFactory
  /\ factory' = [factory EXCEPT !.instances = [t \in Types |-> 0],
                                !.made = [t \in Types |-> 0]]
  /\ factory' # factory
  /\ UNCHANGED <<now, execVars, agent, call, task, session, inst, retry, moreVars>>

NextFactory ==
  \/ FactoryEnv
  \/ CreateAgent
  \/ InitializeAgents
  \/ ResetAgents

SpecFactory == Init /\ [][NextFactory]_vars

\* -------------------------------------------------------------- async_retry
\* What one awaited call of the wrapped function ends with: a result, a
\* transient failure (ConnectionError) or a permanent one (ValidationError).
AttemptOutcomes == {"ok", "ConnectionError", "ValidationError"}

\* the `exceptions` argument: the default (Exception,) or (ConnectionError,)
Catches == {"Exception", "ConnectionError"}

\* `except exceptions as e`
Caught(catches, exc) == catches = "Exception" \/ catches = exc

\* the decorated function is called: wrapper's locals before the loop
RetryBegin ==
  /\ retry.pc \in {"idle", "returned", "raised"}
  /\ \E n \in 1..MaxRetries, c \in Catches :
       retry' = [pc |-> "attempt", retries |-> n, catches |-> c, attempt |-> 0,
                 current_delay |-> delay, last_exception |-> None,
                 invoked |-> 0, slept |-> <<>>, seen |-> <<>>]
  /\ UNCHANGED <<now, execVars, agent, call, task, session, inst, factory, moreVars>>

\* the wrapper with one iteration too many: the last failure of
\* range(retries) sleeps and tries again
RetryAttemptOnceMore ==
  /\ retry.pc = "attempt"
  /\ \E o \in AttemptOutcomes :
       LET r1 == [retry EXCEPT !.invoked = @ + 1, !.seen = Append(@, o)]
       IN retry' =
            IF o = "ok" THEN [r1 EXCEPT !.pc = "returned"]
            ELSE IF ~Caught(retry.catches, o)
            THEN [r1 EXCEPT !.pc = "raised", !.last_exception = o]
            ELSE IF retry.attempt < retry.retries
            THEN [r1 EXCEPT !.pc = "sleep", !.last_exception = o]
            ELSE [r1 EXCEPT !.pc = "raised", !.last_exception = o]
  /\ UNCHANGED <<now, execVars, agent, call, task, session, inst, factory, moreVars>>

\* one iteration of `for attempt in range(retries)`, up to the sleep; `seen`
\* records what the attempts did
RetryAttempt ==
  /\ retry.pc = "attempt"
  /\ \E o \in AttemptOutcomes :
       LET r1 == [retry EXCEPT !.invoked = @ + 1, !.seen = Append(@, o)]
       IN retry' =
            IF o = "ok" THEN [r1 EXCEPT !.pc = "returned"]
            ELSE IF ~Caught(retry.catches, o)
            THEN [r1 EXCEPT !.pc = "raised", !.last_exception = o]
            ELSE IF retry.attempt < retry.retries - 1
            THEN [r1 EXCEPT !.pc = "sleep", !.last_exception = o]
            ELSE [r1 EXCEPT !.pc = "raised", !.last_exception = o]
  /\ UNCHANGED <<now, execVars, agent, call, task, session, inst, factory, moreVars>>

\* asyncio.sleep(current_delay) is over; current_delay *= backoff
RetrySleep ==
  /\ retry.pc = "sleep"
  /\ retry' = [retry EXCEPT !.pc = "attempt",
                            !.attempt = @ + 1,
                            !.slept = Append(@, retry.current_delay),
                            !.current_delay = @ * backoff]
  /\ UNCHANGED <<now, execVars, agent, call, task, session, inst, factory, moreVars>>

NextRetry ==
  \/ RetryBegin
  \/ RetryAttempt
  \/ RetrySleep

SpecRetry == Init /\ [][NextRetry]_vars

\* -------------------------------------------------------- MongoDBSerializer
\* A mapping key as a Python object: its type and its value. `text` is the
\* value of a str (a sequence of characters), `num` the value of an int, the
\* whole part of a float, 0/1 of a bool or the instant of a timestamp, `frac`
\* the first decimal of a float.
StrKey(s) == [type |-> "str", text |-> s, num |-> 0, frac |-> 0]
IntKey(n) == [type |-> "int", text |-> <<>>, num |-> n, frac |-> 0]
FloatKey(n, f) == [type |-> "float", text |-> <<>>, num |-> n, frac |-> f]
BoolKey(b) == [type |-> "bool", text |-> <<>>, num |-> IF b THEN 1 ELSE 0, frac |-> 0]
TimeKey(ty, t) == [type |-> ty, text |-> <<>>, num |-> t, frac |-> 0]

Numbers == {"int", "float", "bool"}
Stamps == {"datetime", "Timestamp"}

\* the string keys tried: plain, and beginning like a serialized key
StrKeys == {<<"a">>, <<"n", "_", "1">>, <<"b", "_", "a">>, <<"t", "_", "a">>}

SerKeys ==
  {StrKey(s) : s \in StrKeys}
    \cup {IntKey(n) : n \in 0..MaxNum}
    \cup {FloatKey(n, f) : n \in 0..MaxNum, f \in {0, 5}}
    \cup {BoolKey(b) : b \in BOOLEAN}
    \cup {TimeKey(ty, t) : ty \in Stamps, t \in 0..MaxNum}

\* Python's == (and hash) on keys: True == 1 == 1.0, and a pd.Timestamp equals
\* the datetime of the same instant
PyEq(a, b) ==
  IF a.type \in Numbers /\ b.type \in Numbers
  THEN a.num = b.num /\ a.frac = b.frac
  ELSE IF a.type \in Stamps /\ b.type \in Stamps THEN a.num = b.num
  ELSE a.type = "str" /\ b.type = "str" /\ a.text = b.text

\* d[k] = ... on a dict kept as the sequence of its keys: an equal key keeps
\* its place and its key object
PutKey(d, k) ==
  IF \E i \in 1..Len(d) : PyEq(d[i], k) THEN d ELSE Append(d, k)

\* the mappings tried: up to MaxKeys keys, no two of them equal
Dicts ==
  {d \in UNION {[1..n -> SerKeys] : n \in 0..MaxKeys} :
     \A i \in 1..Len(d) : \A j \in 1..Len(d) : i # j => ~PyEq(d[i], d[j])}

Digits == <<"0", "1", "2", "3", "4", "5", "6", "7", "8", "9">>
Digit(n) == Digits[n + 1]
IsDigit(c) == \E n \in 0..9 : Digits[n + 1] = c
DigitVal(c) == CHOOSE n \in 0..9 : Digits[n + 1] = c

\* str(key) of a number: "1", "1.5", "True"
Str(k) ==
  IF k.type = "bool"
  THEN IF k.num = 1 THEN <<"T", "r", "u", "e">> ELSE <<"F", "a", "l", "s", "e">>
  ELSE IF k.type = "int" THEN <<Digit(k.num)>>
  ELSE <<Digit(k.num), ".", Digit(k.frac)>>

\* key.isoformat() of the instant t: midnight of the first day of year 202t
Isoformat(t) ==
  <<"2", "0", "2", Digit(t), "-", "0", "1", "-", "0", "1",
    "T", "0", "0", ":", "0", "0", ":", "0", "0">>

\* _serialize_key: the isinstance tests in the order of the code; a bool is an
\* int, so the first test takes it
SerializeKey(k) ==
  IF k.type \in {"int", "float", "bool"} THEN <<"n", "_">> \o Str(k)
  ELSE IF k.type \in Stamps THEN <<"t", "_">> \o Isoformat(k.num)
  ELSE IF k.type = "bool"
  THEN <<"b", "_">> \o (IF k.num = 1 THEN <<"t", "r", "u", "e">>
                                   ELSE <<"f", "a", "l", "s", "e">>)
  ELSE k.text

StartsWith(s, pre) == Len(s) >= Len(pre) /\ SubSeq(s, 1, Len(pre)) = pre

\* float(text) succeeds on the numerals the model writes
FloatParses(x) ==
  \/ Len(x) = 1 /\ IsDigit(x[1])
  \/ Len(x) = 3 /\ IsDigit(x[1]) /\ x[2] = "." /\ IsDigit(x[3])

\* datetime.fromisoformat(text) succeeds
IsoParses(x) == \E t \in 0..9 : x = Isoformat(t)

\* _deserialize_key
DeserializeKey(s) ==
  LET x == SubSeq(s, 3, Len(s)) IN
  IF StartsWith(s, <<"n", "_">>)
  THEN IF FloatParses(x)
       THEN LET n == DigitVal(x[1])
                f == IF Len(x) = 3 THEN DigitVal(x[3]) ELSE 0
            IN IF f = 0 THEN IntKey(n) ELSE FloatKey(n, f)
       ELSE StrKey(s)
  ELSE IF StartsWith(s, <<"t", "_">>)
  THEN IF IsoParses(x)
       THEN TimeKey("datetime", CHOOSE t \in 0..9 : x = Isoformat(t))
       ELSE StrKey(s)
  ELSE IF StartsWith(s, <<"b", "_">>)
  THEN BoolKey(x = <<"t", "r", "u", "e">>)
  ELSE StrKey(s)

\* serialize_for_mongodb on a dict: the comprehension over data.items()
SerializeForMongodb(d) ==
  LET f[i \in 0..Len(d)] ==
        IF i = 0 THEN <<>> ELSE PutKey(f[i - 1], StrKey(SerializeKey(d[i])))
  IN f[Len(d)]

\* deserialize_from_mongodb on a dict
DeserializeFromMongodb(m) ==
  LET f[i \in 0..Len(m)] ==
        IF i = 0 THEN <<>> ELSE PutKey(f[i - 1], DeserializeKey(m[i].text))
  IN f[Len(m)]

\* a mapping is handed to the serializer
SerializerBegin ==
  /\ ser.pc \in {"idle", "read"}
  /\ \E d \in Dicts : ser' = [pc |-> "given", d |-> d, doc |-> <<>>, back |-> <<>>]
  /\ UNCHANGED <<now, execVars, agent, call, task, session, inst, factory, retry,
                 lru, mgr, wsm>>

\* serialize_for_mongodb(d): the document that is stored
SerializerStore ==
  /\ ser.pc = "given"
  /\ ser' = [ser EXCEPT !.pc = "stored", !.doc = SerializeForMongodb(ser.d)]
  /\ UNCHANGED <<now, execVars, agent, call, task, session, inst, factory, retry,
                 lru, mgr, wsm>>

\* deserialize_from_mongodb(doc)
SerializerRead ==
  /\ ser.pc = "stored"
  /\ ser' = [ser EXCEPT !.pc = "read", !.back = DeserializeFromMongodb(ser.doc)]
  /\ UNCHANGED <<now, execVars, agent, call, task, session, inst, factory, retry,
                 lru, mgr, wsm>>

NextSerializer ==
  \/ SerializerBegin
  \/ SerializerStore
  \/ SerializerRead

SpecSerializer == Init /\ [][NextSerializer]_vars

\* ---------------------------------------------- AnalysisCache, small max_size
\* the keys given to set: enough of them to overfill the largest cache
LruKeys == 1..(MaxCap + 2)

\* AnalysisCache(max_size): an empty dict. `n` counts the set calls, `since`
\* remembers for every key of the dict the call that put the key in, `last`
\* describes the latest set call.
LruCreate ==
  /\ lru = NoLru
  /\ \E cap \in 1..MaxCap :
       lru' = [pc |-> "ready", max_size |-> cap, cache |-> <<>>, n |-> 0,
               since |-> [k \in LruKeys |-> 0],
               last |-> [key |-> 0, new |-> FALSE, full |-> FALSE,
                         gone |-> {}, oldest |-> {}]]
  /\ UNCHANGED <<now, execVars, agent, call, task, session, inst, factory, retry,
                 ser, mgr, wsm>>

\* the keys of the dict that were put in before all the others
Oldest(c, since) ==
  {k \in CacheKeys(c) : \A j \in CacheKeys(c) : since[k] <= since[j]}

\* AnalysisCache.set(key, value); the value is the ordinal of the call
LruSet ==
  /\ lru # NoLru
  /\ lru.n < MaxSets
  /\ \E k \in LruKeys :
       LET c == lru.cache
           c1 == CacheSet(c, lru.max_size, k, lru.n + 1)
           gone == CacheKeys(c) \ CacheKeys(c1)
           put == k \notin CacheKeys(IF Len(c) >= lru.max_size THEN Tail(c) ELSE c)
       IN lru' = [lru EXCEPT
                    !.cache = c1,
                    !.n = @ + 1,
                    !.since = [x \in LruKeys |->
                                 IF x = k /\ put THEN lru.n + 1 ELSE @[x]],
                    !.last = [key |-> k,
                              new |-> k \notin CacheKeys(c),
                              full |-> Len(c) >= lru.max_size,
                              gone |-> gone,
                              oldest |-> Oldest(c, lru.since)]]
  /\ UNCHANGED <<now, execVars, agent, call, task, session, inst, factory, retry,
                 ser, mgr, wsm>>

NextCache ==
  \/ LruCreate
  \/ LruSet

SpecCache == Init /\ [][NextCache]_vars

\* ------------------------------------------- ConnectionManager of main.py
\* list.remove(websocket): the first occurrence goes; ValueError (caught) when
\* there is none
Remove(l, w) ==
  IF \E i \in 1..Len(l) : l[i] = w
  THEN LET i == CHOOSE j \in 1..Len(l) : l[j] = w /\ \A h \in 1..(j - 1) : l[h] # w
       IN SubSeq(l, 1, i - 1) \o SubSeq(l, i + 1, Len(l))
  ELSE l

Registered(w) == \E t \in TaskIds : \E i \in 1..Len(mgr.active[t]) : mgr.active[t][i] = w

\* a coroutine calls connect, disconnect or broadcast_update; a websocket is
\* connected by one coroutine and registered once
ManagerCall(p) ==
  /\ mgr.procs[p].pc \in {"idle", "done"}
  /\ \E op \in {"connect", "disconnect", "broadcast"}, w \in Sockets, t \in TaskIds :
       /\ op = "connect" =>
            /\ ~Registered(w)
            /\ \A q \in Procs : ~(mgr.procs[q].op = "connect" /\ mgr.procs[q].ws = w
                                   /\ mgr.procs[q].pc \in {"accept", "acquire"})
       /\ mgr' = [mgr EXCEPT !.procs[p] =
                    [IdleProc EXCEPT !.op = op,
                                     !.pc = IF op = "connect" THEN "accept" ELSE "acquire",
                                     !.ws = IF op = "broadcast" THEN 0 ELSE w,
                                     !.task = t]]
  /\ UNCHANGED <<now, execVars, agent, call, task, session, inst, factory, retry,
                 ser, lru, wsm>>

\* connect: `await websocket.accept()` returns or raises
ManagerAccept(p) ==
  /\ mgr.procs[p].pc = "accept"
  /\ \E ok \in BOOLEAN :
       mgr' = [mgr EXCEPT !.procs[p].pc = IF ok THEN "acquire" ELSE "done"]
  /\ UNCHANGED <<now, execVars, agent, call, task, session, inst, factory, retry,
                 ser, lru, wsm>>

\* `async with self._lock` is entered: asyncio.Lock is free. connect and
\* disconnect run to the end of the block without awaiting, which releases the
\* lock; broadcast_update keeps it while it sends. `inner` marks the
\* disconnect that broadcast_update awaits for a dead connection.
ManagerAcquire(p) ==
  /\ mgr.procs[p].pc = "acquire"
  /\ mgr.lock = 0
  /\ LET me == mgr.procs[p]
         t == me.task
     IN IF me.op = "connect"
        THEN mgr' = [mgr EXCEPT !.active[t] = Append(@, me.ws),
                                !.procs[p].pc = "done"]
        ELSE IF me.op = "disconnect"
        THEN mgr' = [mgr EXCEPT !.active[t] = Remove(@, me.ws),
                                !.procs[p].pc = "done"]
        ELSE IF me.inner
        THEN mgr' = [mgr EXCEPT !.active[t] = Remove(@, me.dead[1]),
                                !.procs[p].dead = Tail(@),
                                !.procs[p].pc = IF Len(me.dead) > 1
                                                THEN "acquire" ELSE "done"]
        ELSE IF mgr.active[t] = <<>>
        THEN mgr' = [mgr EXCEPT !.procs[p].pc = "done"]
        ELSE mgr' = [mgr EXCEPT !.lock = p,
                                !.procs[p].pc = "send",
                                !.procs[p].i = 1]
  /\ UNCHANGED <<now, execVars, agent, call, task, session, inst, factory, retry,
                 ser, lru, wsm>>

\* broadcast_update: one `await websocket.send_json(data)` returns or raises;
\* after the last one either the block ends and the lock is released, or
\* `await self.disconnect(ws, task_id)` is reached with the lock still held
ManagerSend(p) ==
  /\ mgr.procs[p].pc = "send"
  /\ \E ok \in BOOLEAN :
       LET me == mgr.procs[p]
           l == mgr.active[me.task]
           dead_ws == IF ok THEN me.dead ELSE Append(me.dead, l[me.i])
       IN IF me.i < Len(l)
          THEN mgr' = [mgr EXCEPT !.procs[p].i = @ + 1, !.procs[p].dead = dead_ws]
          ELSE IF dead_ws = <<>>
          THEN mgr' = [mgr EXCEPT !.lock = 0, !.procs[p].pc = "done"]
          ELSE mgr' = [mgr EXCEPT !.procs[p].pc = "acquire",
                                  !.procs[p].inner = TRUE,
                                  !.procs[p].dead = dead_ws]
  /\ UNCHANGED <<now, execVars, agent, call, task, session, inst, factory, retry,
                 ser, lru, wsm>>

NextManager ==
  \/ \E p \in Procs : ManagerCall(p)
  \/ \E p \in Procs : ManagerAccept(p)
  \/ \E p \in Procs : ManagerAcquire(p)
  \/ \E p \in Procs : ManagerSend(p)

SpecManager == Init /\ [][NextManager]_vars

\* --------------------------------- ConnectionManager of routes/websocket.py
\* ConnectionManager.disconnect(task_id)
RouteDisconnect(active, t) == [active EXCEPT ![t] = 0]

\* analysis_updates up to its receive loop: manager.connect accepts the
\* websocket and stores it under the task id; when accept raises, the handler
\* logs and the finally clause calls manager.disconnect(task_id)
WsConnect(w) ==
  /\ wsm.clients[w].pc \in {"new", "closed"}
  /\ \E t \in TaskIds, ok \in BOOLEAN :
       wsm' = IF ok
              THEN [wsm EXCEPT !.active[t] = w,
                               !.clients[w] = [pc |-> "open", task |-> t, got |-> 0]]
              ELSE [wsm EXCEPT !.active = RouteDisconnect(@, t),
                               !.clients[w] = [pc |-> "closed", task |-> t, got |-> 0]]
  /\ UNCHANGED <<now, execVars, agent, call, task, session, inst, factory, retry,
                 ser, lru, mgr>>

\* the receive loop answers a status_request: manager.send_message(task_id, ...)
\* sends to the websocket stored under the task id, if there is one
WsStatusRequest(w) ==
  /\ wsm.clients[w].pc = "open"
  /\ LET to == wsm.active[wsm.clients[w].task]
     IN /\ to # 0
        /\ wsm.clients[to].got < MaxGot
        /\ wsm' = [wsm EXCEPT !.clients[to].got = @ + 1]
  /\ UNCHANGED <<now, execVars, agent, call, task, session, inst, factory, retry,
                 ser, lru, mgr>>

\* the client goes away: WebSocketDisconnect leaves the loop and the finally
\* clause calls manager.disconnect(task_id)
WsDisconnect(w) ==
  /\ wsm.clients[w].pc = "open"
  /\ wsm' = [wsm EXCEPT !.active = RouteDisconnect(@, wsm.clients[w].task),
                        !.clients[w].pc = "closed"]
  /\ UNCHANGED <<now, execVars, agent, call, task, session, inst, factory, retry,
                 ser, lru, mgr>>

NextRoute ==
  \/ \E w \in Sockets : WsConnect(w)
  \/ \E w \in Sockets : WsStatusRequest(w)
  \/ \E w \in Sockets : WsDisconnect(w)

SpecRoute == Init /\ [][NextRoute]_vars

\* ------------------------------------------------------------------ claims
Failing == {"error", "raise"}
Succeeding == {"ok", "ok_text"}
Dispatched == pc = "done" /\ ~hit /\ data \in {"empty", "good"}
Invoked == {a \in Agents : called[a] # None}
\* the cache validity window of the claims, in ticks: shorter than a day
TTL == TicksPerDay - 1

\* C1: a second run for dataset D on the same pipeline, inside the cache
\* validity window of a completed run for D, returns a result identical to the
\* one that run returned and invokes no agent.
C1_SecondRunIdentical ==
  \A i \in 1..Len(returned) :
    (/\ pc = "done"
     /\ returned[i].run < runs
     /\ returned[i].key[1] = data
     /\ started - returned[i].at < TTL)
    => (ret = returned[i].value /\ Invoked = {})

\* C2: if exactly one agent raises during a run (the others answering
\* normally when asked), the other agents are all invoked and the run returns
\* a success-status result whose insights and recommendations come only from
\* the agents that succeeded in that run.
C2_OneAgentRaises ==
  (/\ Dispatched
   /\ Cardinality({a \in Agents : called[a] = "raise"}) = 1
   /\ \A a \in Agents : called[a] \in {"raise", "ok", None})
  => (/\ Invoked = Agents
      /\ ret.status = "completed"
      /\ \A j \in 1..Len(ret.results.insights) :
           /\ ret.results.insights[j].run = runs
           /\ called[ret.results.insights[j].agent] = "ok"
      /\ \A j \in 1..Len(ret.results.recommendations) :
           /\ ret.results.recommendations[j].run = runs
           /\ called[ret.results.recommendations[j].agent] = "ok")

\* C3: if every configured agent fails in a run, the run returns a result
\* whose insight and recommendation lists are empty.
C3_AllAgentsFail ==
  (Dispatched /\ \A a \in Agents : called[a] \in Failing)
  => (/\ ret.status = "completed"
      /\ ret.results.insights = <<>>
      /\ ret.results.recommendations = <<>>)

\* C4: a run issued once the TTL has elapsed since the entry for dataset D was
\* cached is a cache miss (the expired entry is gone from the cache) and
\* invokes all configured agents again.
C4_ExpiredEntryMisses ==
  \A i \in 1..Len(returned) :
    (/\ pc = "done"
     /\ data \in {"empty", "good"}
     /\ returned[i].run < runs
     /\ returned[i].key[1] = data
     /\ started - returned[i].at >= TTL)
    => (/\ ~hit
        /\ Invoked = Agents
        /\ (returned[i].key # cache_key => returned[i].key \notin CacheKeys(cache)))

\* C5: for an empty dataset the analysis fails with a validation error and no
\* agent's analyze is invoked before that.
C5_EmptyDatasetRejected ==
  (data = "empty")
  => (/\ Invoked = {}
      /\ pc = "done" => ret.status = "error")

\* C8: when preprocessing or aggregation raises, the run ends with progress
\* -1 and an error result carrying the partial results accumulated so far.
C8_FailureSetsProgressMinusOne ==
  (pc = "done" /\ ret.status = "error")
  => (progress = -1 /\ ret.progress = -1 /\ ret.results = results)

\* C9: in every step of a run in progress the progress value is an integer in
\* 0..100 or -1, does not decrease except to -1, and stays -1 once it is -1.
C9_ProgressMonotone ==
  [][pc \notin {"idle", "done"}
     => (/\ progress' \in (0..100) \cup {-1}
         /\ (progress' >= progress \/ progress' = -1)
         /\ (progress = -1 => progress' = -1))]_vars

\* C10: a cache entry for a key exists only if some run for that key completed
\* aggregation successfully; a run that ends in a pipeline-level failure
\* leaves no entry for its key.
C10_CacheOnlyAfterSynthesis ==
  /\ CacheKeys(cache) \subseteq stored
  /\ \A j \in 1..Len(cache) : cache[j].value.status = "completed"
  /\ (pc = "done" /\ ret.status = "error") => cache_key \notin CacheKeys(cache)

\* a run failed in aggregation while another key's result is cached
C10_Witness ==
  /\ pc = "done"
  /\ ret.status = "error"
  /\ progress = 100
  /\ cache # <<>>

\* C6: BaseAgent.analyze returns a value for every input and lets no exception
\* raised by input validation, sanitization, _run_analysis or output
\* validation escape; on failure the value has status 'error', the error
\* message and the partial results accumulated so far.
C6_AnalyzeNeverRaises ==
  call.pc = "returned"
  => (/\ ~call.escaped
      /\ call.ret # NoValue
      /\ call.raised # None =>
           (/\ call.ret.status = "error"
            /\ call.ret.error = call.raised
            /\ call.ret.partial_results = 1..call.acc))

\* a call whose _run_analysis timed out after recording a partial result
C6_Witness ==
  /\ call.pc = "returned"
  /\ call.raised = "TimeoutError"
  /\ call.acc > 0
  /\ call.ret.status = "error"

\* C7: in the parallel dispatch of analyze_dataset an agent call that ended as
\* an exception is replaced by an error-shaped result before synthesis: neither
\* the synthesis input nor the per-agent fields of the returned result hold a
\* raw exception object.
C7_NoRawExceptionAfterGather ==
  /\ session.pc \in {"synthesize", "store", "done"} /\ session.raised = None
       /\ "watson" \in session.invoked
     => (/\ session.synthesis_input.watson_results # "exception"
         /\ session.synthesis_input.gemini_results # "exception")
  /\ session.pc \in {"store", "done"} /\ "watson" \in session.invoked
       /\ "ret" \in DOMAIN session
     => (session.ret.status = "success"
         => (/\ session.ret.watson_analysis # "exception"
             /\ session.ret.gemini_analysis # "exception"))

\* C11: the cache key of a dataset does not depend on when it is computed: the
\* key computed for the current call equals the key under which any earlier
\* run cached the same dataset.
C11_KeyIndependentOfTime ==
  \A i \in 1..Len(returned) :
    (pc # "idle" /\ returned[i].key[1] = data) => returned[i].key = cache_key

\* the per-call transient state of an agent instance
Transient(ag) ==
  [start_time |-> ag.start_time, current_state |-> ag.current_state,
   analysis_results |-> ag.analysis_results]

C13_SlowRequestTimesOut ==
  inst # NoInst =>
    \A c \in Callers :
      /\ (inst.calls[c].pc = "returned" /\ inst.calls[c].overran)
           => inst.calls[c].ret = "TimeoutError"
      /\ inst.calls[c].pc = "request" => now - inst.calls[c].req_at <= Timeout

\* C18: any two remote requests sent by one rate-limited instance are at least
\* MinInterval apart, whatever the interleaving of the calls on the instance.
C18_RequestsSpaced ==
  (inst # NoInst /\ Checks(inst.kind)) =>
    \A i \in 1..Len(inst.sent) : \A j \in 1..Len(inst.sent) :
      i < j => inst.sent[j] - inst.sent[i] >= MinInterval

\* C14: without a reset the factory constructs at most one instance per
\* provider type: creating an agent of a type that has an instance returns
\* that instance.
C14_OneInstancePerType ==
  factory # NoFactory => \A t \in Types : factory.made[t] <= 1

C16_PermanentNotRetried ==
  (retry.pc \in {"sleep", "raised"} /\ retry.last_exception = "ValidationError")
  => (retry.pc = "raised" /\ retry.invoked = 1 /\ retry.slept = <<>>)

\* position in the thought log of the start thought of the current run (0 if
\* the current call logged none)
RunStart ==
  LET S == {i \in 1..Len(thoughts) : thoughts[i].thought = "start"}
  IN IF S = {} THEN 0 ELSE CHOOSE i \in S : \A j \in S : j <= i

\* C17: within a run preprocessing and input preparation are complete before
\* any agent is invoked, and the agent loop is over (every agent has returned
\* or the call limit stopped the loop) before aggregation starts and before
\* anything is returned.
C17_PhaseOrder ==
  /\ pc = "preprocess" => Invoked = {}
  /\ Invoked # {} =>
       \E p \in (RunStart + 1)..Len(thoughts) :
         /\ thoughts[p].thought = "patterns"
         /\ \A k \in (RunStart + 1)..Len(thoughts) :
              thoughts[k].thought \in {"agent_start", "agent_error"} => k > p
  /\ (pc = "merge" \/ (pc = "done" /\ ~hit /\ ret.status = "completed"))
       => (idx > Len(AgentNames) \/ api_call_count >= MAX_TOTAL_API_CALLS)
  /\ pc \in {"preprocess", "dispatch", "merge"} => ret = NoValue

\* every agent has been invoked and has returned; aggregation is next
C17_Witness ==
  /\ pc = "merge"
  /\ Invoked = Agents
  /\ runs > 1

\* the thoughts recorded by pipeline-level steps
PipelineThoughts ==
  {"cached", "start", "preprocessed", "metrics", "metadata", "patterns",
   "prepare_error"}

\* C19: when two agents of a run each report a pattern with the same (name,
\* type), the merged result has exactly one pattern entry with that (name,
\* type).
C19_PatternsDeduplicated ==
  (/\ pc = "done" /\ ~hit /\ ret.status = "completed"
   /\ \E i, j \in 1..Len(results) :
        /\ i < j
        /\ results[i].run = runs /\ results[j].run = runs
        /\ PatternsOf(results[i])[1] = PatternsOf(results[j])[1])
  => Cardinality({k \in 1..Len(Patterns(ret.results)) :
                    Patterns(ret.results)[k] = PatternsOf(results[1])[1]}) = 1

\* C20: every thought recorded by a pipeline-level step (cache hit, run start,
\* preprocessing, input preparation) is tagged 'pipeline', and every thought
\* of an agent step is tagged with an agent, in every run.
C20_ThoughtsTagged ==
  \A i \in 1..Len(thoughts) :
    IF thoughts[i].thought \in PipelineThoughts
    THEN thoughts[i].agent = "pipeline"
    ELSE thoughts[i].agent \in Agents

\* C21: while an analyze call is in progress on an instance, the instance's
\* start_time is the time that call itself began, whatever other calls on the
\* instance start or finish meanwhile.
C21_OwnStartTime ==
  inst # NoInst =>
    \A c \in Callers : InFlight(c) => inst.start_time = inst.calls[c].began

\* the remote calls the agents made during the current run: one per analyze
\* call that returned
OwnCalls == Cardinality({a \in Invoked : called[a] # "raise"})

\* C22: at every limit check of the agent loop the count compared with
\* MAX_TOTAL_API_CALLS is the number of remote calls made during the current
\* run, and the loop is left before the last agent only when the run's own
\* calls have reached the maximum.
C22_CountsOwnCalls ==
  /\ pc = "dispatch" => api_call_count = OwnCalls
  /\ pc = "merge" => (idx > Len(AgentNames) \/ OwnCalls >= MAX_TOTAL_API_CALLS)

\* C23: the function wrapped by async_retry with retries = n is invoked at
\* most n times; a successful attempt is the last one and its result is
\* returned; after n failed attempts the exception of the n-th attempt is
\* raised.
C23_AtMostNAttempts ==
  retry.pc # "idle" =>
    /\ retry.invoked <= retry.retries
    /\ \A j \in 1..Len(retry.seen) :
         retry.seen[j] = "ok" => (j = Len(retry.seen) /\ retry.pc = "returned")
    /\ retry.pc = "returned" => retry.seen[Len(retry.seen)] = "ok"
    /\ (retry.invoked = retry.retries /\ retry.seen[retry.retries] # "ok")
         => (retry.pc = "raised" /\ retry.last_exception = retry.seen[retry.retries])

\* three attempts failed with different exceptions and the last one was raised
C23_Witness ==
  /\ retry.pc = "raised"
  /\ retry.retries = 3
  /\ retry.invoked = 3
  /\ retry.seen = <<"ConnectionError", "ConnectionError", "ValidationError">>
  /\ retry.last_exception = "ValidationError"

\* the keys of a mapping, each with its type
KeySet(d) == {d[i] : i \in 1..Len(d)}

\* C24: the mapping read back from the serialized form of a mapping has
\* exactly the keys of the original mapping, each with its original type.
C24_KeysRoundTrip ==
  ser.pc = "read" => KeySet(ser.back) = KeySet(ser.d)

\* C25: the aggregated results a run of execute returns are built from the
\* outputs of the agents that succeeded in that run only: every agent of the
\* summary succeeded in the run, and every insight and recommendation was
\* produced in the run.
C25_OnlyThisRunsOutputs ==
  (pc = "done" /\ ~hit /\ ret.status = "completed")
  => (/\ \A a \in ret.results.summary : called[a] \in Succeeding
      /\ \A j \in 1..Len(ret.results.insights) :
           ret.results.insights[j].run = runs
      /\ \A j \in 1..Len(ret.results.recommendations) :
           ret.results.recommendations[j].run = runs)

\* C27: when process_analysis is over, the task is 'completed' with progress
\* 100 only if the pipeline run returned a success result, and a run that
\* returned status 'error' leaves the task 'failed'.
C27_CompletedOnlyOnSuccess ==
  (session.pc = "done" /\ "ret" \in DOMAIN session)
  => (/\ (task.status = "completed" /\ task.progress = 100)
           => session.ret.status = "success"
      /\ session.ret.status = "error" => task.status = "failed")

\* C28: a run in which no agent produced a usable result leaves no cache
\* entry for its key, and a later run for the key of a run that returned no
\* agent output at all is not served from the cache.
C28_EmptyRunNotCached ==
  /\ (Dispatched /\ \A a \in Agents : called[a] \notin Succeeding)
       => cache_key \notin CacheKeys(cache)
  /\ \A i \in 1..Len(returned) :
       (/\ pc = "done"
        /\ returned[i].run < runs
        /\ returned[i].key = cache_key
        /\ returned[i].value.results.summary = {})
       => ~hit

\* C29: after any sequence of set calls the cache holds at most max_size
\* entries, and a set call that inserts a new key into a full cache evicts
\* exactly the entry whose key was inserted earliest.
C29_BoundedFifo ==
  lru # NoLru =>
    /\ Len(lru.cache) <= lru.max_size
    /\ (lru.last.new /\ lru.last.full) => lru.last.gone = lru.last.oldest

\* a new key was put into a full cache of two entries, after some set call
\* had written a key a second time, and another key was evicted
C29_Witness ==
  /\ lru # NoLru
  /\ lru.max_size = 2
  /\ lru.last.new /\ lru.last.full
  /\ lru.last.gone # {}
  /\ lru.n > Cardinality({k \in LruKeys : lru.since[k] > 0})

\* C26: a coroutine never waits for the manager's lock while it holds the
\* lock itself, so that broadcast_update ends and releases the lock also when
\* a send failed and the dead connection is removed, and no later connect,
\* disconnect or broadcast waits forever.
C26_BroadcastReleasesLock ==
  \A p \in Procs : ~(mgr.lock = p /\ mgr.procs[p].pc = "acquire")

\* C30: when two clients are connected for the same task id and one of them
\* disconnects, the other one is registered for the task afterwards, so that
\* the messages sent for the task reach it.
C30_OtherStaysRegistered ==
  [][\A w \in Sockets : \A v \in Sockets :
       (/\ w # v
        /\ wsm.clients[w].pc = "open" /\ wsm.clients[v].pc = "open"
        /\ wsm.clients[w].task = wsm.clients[v].task
        /\ wsm'.clients[w].pc = "closed" /\ wsm'.clients[v].pc = "open")
       => wsm'.active[wsm.clients[v].task] = v]_vars

====
